---- MODULE Spec2Model ----
(***************************************************************************)
(* Model of the Mexico-mileage backend (src/main.py): the address          *)
(* builders, the four-rule leg classifier, the routing-provider client and *)
(* the semaphore-bounded enrichment pipeline of calculate_mileage.         *)
(*                                                                         *)
(* Python values are tagged records: None, a float NaN, a str (a sequence  *)
(* of one-character strings), an int, a float distance in tenths of a mile.*)
(***************************************************************************)
EXTENDS Integers, Sequences, FiniteSets, TLC

\* ------------------------------------------------------------------ bounds
\* Largest number of records in one uploaded sheet.
MaxRecords == 3
\* Slots of the limiter.  The program builds asyncio.Semaphore(20)
\* (src/main.py:163); the model runs the same limiter with fewer slots so
\* that a sheet of MaxRecords records can exhaust it.
SemLimit == 2

\* ------------------------------------------------------------ Python values
PyNone == [t |-> "None"]
NaN == [t |-> "nan"]
Str(s) == [t |-> "str", s |-> s]
PyInt(n) == [t |-> "int", n |-> n]
Miles(tenths) == [t |-> "miles", tenths |-> tenths]

IsStr(v) == v.t = "str"
\* Python truthiness of a value that is None or a str ("if x:").
Truthy(v) == IsStr(v) /\ v.s # << >>

\* ------------------------------------------------------------ str helpers
Digit(d) == CASE d = 0 -> "0" [] d = 1 -> "1" [] d = 2 -> "2" [] d = 3 -> "3"
              [] d = 4 -> "4" [] d = 5 -> "5" [] d = 6 -> "6" [] d = 7 -> "7"
              [] d = 8 -> "8" [] d = 9 -> "9"

RECURSIVE IntToStr(_)
IntToStr(n) == IF n < 10 THEN << Digit(n) >>
               ELSE IntToStr(n \div 10) \o << Digit(n % 10) >>

\* str(v) of a str or an int
PyStr(v) == IF v.t = "int" THEN IntToStr(v.n) ELSE v.s

IsSpace(c) == c = " "

RECURSIVE LStrip(_)
LStrip(s) == IF s # << >> /\ IsSpace(Head(s)) THEN LStrip(Tail(s)) ELSE s

RECURSIVE RStrip(_)
RStrip(s) == IF s # << >> /\ IsSpace(s[Len(s)])
             THEN RStrip(SubSeq(s, 1, Len(s) - 1)) ELSE s

\* s.strip()
Strip(s) == RStrip(LStrip(s))

\* s.replace(",", ", ")
RECURSIVE ReplaceComma(_)
ReplaceComma(s) ==
    IF s = << >> THEN << >>
    ELSE IF Head(s) = "," THEN << ",", " " >> \o ReplaceComma(Tail(s))
    ELSE << Head(s) >> \o ReplaceComma(Tail(s))

\* ", ".join(parts)
RECURSIVE Join(_)
Join(parts) ==
    IF parts = << >> THEN << >>
    ELSE IF Len(parts) = 1 THEN parts[1]
    ELSE parts[1] \o << ",", " " >> \o Join(Tail(parts))

MEXICO == << "M", "e", "x", "i", "c", "o" >>
USA == << "U", "S", "A" >>

\* ------------------------------------------------------------ AddressBuilder
norm(v) ==
    IF v.t = "None" THEN PyNone
    ELSE IF v.t = "nan" THEN PyNone
    ELSE Str(Strip(PyStr(v)))

\* Mutant: the comma of the token is left as it is.
build_address_no_space(city_state_str, zip_code, country) ==
    IF ~Truthy(city_state_str) THEN PyNone
    ELSE LET parts == << city_state_str.s >>
                      \o (IF Truthy(zip_code) THEN << PyStr(zip_code) >> ELSE << >>)
                      \o << country >>
         IN Str(Join(parts))

build_address(city_state_str, zip_code, country) ==
    IF ~Truthy(city_state_str) THEN PyNone
    ELSE LET cs == ReplaceComma(city_state_str.s)
             parts == << cs >>
                      \o (IF Truthy(zip_code) THEN << PyStr(zip_code) >> ELSE << >>)
                      \o << country >>
         IN Str(Join(parts))

\* Mutant: a missing state is left out of the address instead of rejected.
build_us_address_state_optional(city, state, zip_code) ==
    IF ~Truthy(city) THEN PyNone
    ELSE LET parts == << Strip(city.s) >>
                      \o (IF Truthy(state) THEN << Strip(state.s) >> ELSE << >>)
                      \o (IF Truthy(zip_code) THEN << PyStr(zip_code) >> ELSE << >>)
                      \o << USA >>
         IN Str(Join(parts))

build_us_address(city, state, zip_code) ==
    IF ~Truthy(city) \/ ~Truthy(state) THEN PyNone
    ELSE LET parts == << Strip(city.s), Strip(state.s) >>
                      \o (IF Truthy(zip_code) THEN << PyStr(zip_code) >> ELSE << >>)
                      \o << USA >>
         IN Str(Join(parts))

\* ------------------------------------------------------------ LegClassifier
\* The (origin_address, destination_address) tuple; (None, None) is no leg.
Pair(o, d) == [origin |-> o, dest |-> d]
NoLeg == Pair(PyNone, PyNone)

\* Mutant: rule 3 is tested before rules 1 and 2 with "or" for "and".
classify_and_build_addresses_rule3_or(row) ==
    LET mx_origin_cs == norm(row.mxo)
        mx_dest_cs == norm(row.mxd)
        dest_city == norm(row.dcity)
        dest_state == norm(row.dstate)
        dest_zip == norm(row.dzip)
    IN  IF Truthy(mx_origin_cs) /\ Truthy(mx_dest_cs) THEN
            Pair(build_address(mx_origin_cs, PyNone, MEXICO),
                 build_address(mx_dest_cs, PyNone, MEXICO))
        ELSE IF Truthy(mx_origin_cs) \/ Truthy(mx_dest_cs) THEN
            LET mx_origin_addr == build_address(mx_origin_cs, PyNone, MEXICO)
                border_addr == build_us_address(dest_city, dest_state, dest_zip)
            IN  IF ~Truthy(border_addr) \/ ~Truthy(mx_origin_addr) THEN NoLeg
                ELSE Pair(mx_origin_addr, border_addr)
        ELSE NoLeg

\* Mutant: rule 1 returns its pair without testing the U.S. address.
classify_and_build_addresses_rule1_unchecked(row) ==
    LET mx_origin_cs == norm(row.mxo)
        mx_dest_cs == norm(row.mxd)
        orig_city == norm(row.ocity)
        orig_state == norm(row.ostate)
        orig_zip == norm(row.ozip)
        dest_city == norm(row.dcity)
        dest_state == norm(row.dstate)
        dest_zip == norm(row.dzip)
    IN  IF Truthy(mx_origin_cs) /\ ~Truthy(mx_dest_cs) THEN
            Pair(build_address(mx_origin_cs, PyNone, MEXICO),
                 build_us_address(dest_city, dest_state, dest_zip))
        ELSE IF ~Truthy(mx_origin_cs) /\ Truthy(mx_dest_cs) THEN
            LET border_addr == build_us_address(orig_city, orig_state, orig_zip)
                mx_dest_addr == build_address(mx_dest_cs, PyNone, MEXICO)
            IN  IF ~Truthy(border_addr) \/ ~Truthy(mx_dest_addr) THEN NoLeg
                ELSE Pair(border_addr, mx_dest_addr)
        ELSE IF Truthy(mx_origin_cs) /\ Truthy(mx_dest_cs) THEN
            Pair(build_address(mx_origin_cs, PyNone, MEXICO),
                 build_address(mx_dest_cs, PyNone, MEXICO))
        ELSE NoLeg

classify_and_build_addresses(row) ==
    LET mx_origin_cs == norm(row.mxo)
        mx_dest_cs == norm(row.mxd)
        orig_city == norm(row.ocity)
        orig_state == norm(row.ostate)
        orig_zip == norm(row.ozip)
        dest_city == norm(row.dcity)
        dest_state == norm(row.dstate)
        dest_zip == norm(row.dzip)
    IN  IF Truthy(mx_origin_cs) /\ ~Truthy(mx_dest_cs) THEN
            LET mx_origin_addr == build_address(mx_origin_cs, PyNone, MEXICO)
                border_addr == build_us_address(dest_city, dest_state, dest_zip)
            IN  IF ~Truthy(border_addr) THEN NoLeg
                ELSE Pair(mx_origin_addr, border_addr)
        ELSE IF ~Truthy(mx_origin_cs) /\ Truthy(mx_dest_cs) THEN
            LET border_addr == build_us_address(orig_city, orig_state, orig_zip)
                mx_dest_addr == build_address(mx_dest_cs, PyNone, MEXICO)
            IN  IF ~Truthy(border_addr) \/ ~Truthy(mx_dest_addr) THEN NoLeg
                ELSE Pair(border_addr, mx_dest_addr)
        ELSE IF Truthy(mx_origin_cs) /\ Truthy(mx_dest_cs) THEN
            LET mx_origin_addr == build_address(mx_origin_cs, PyNone, MEXICO)
                mx_dest_addr == build_address(mx_dest_cs, PyNone, MEXICO)
            IN  Pair(mx_origin_addr, mx_dest_addr)
        ELSE NoLeg

\* ------------------------------------------------------------ DistanceClient
\* What "await client.post(...)" can deliver: an httpx exception (timeout,
\* provider unreachable) or an HTTP response with a status and a body.  A body
\* is either not JSON or a JSON object that may hold "routes", a list of
\* routes, each of which may hold "distanceMeters".
ExcResponse(e) == [kind |-> "exc", exc |-> e]
HttpResponse(status, body) == [kind |-> "http", status |-> status, body |-> body]
NotJson == [json |-> FALSE]
JsonNoRoutes == [json |-> TRUE, hasRoutes |-> FALSE, routes |-> << >>]
JsonRoutes(rs) == [json |-> TRUE, hasRoutes |-> TRUE, routes |-> rs]
Route(m) == [distanceMeters |-> m]

HTTP_OK == 200

Raised == [raised |-> TRUE]
Returned(v) == [raised |-> FALSE, value |-> v]

\* round(meters * 0.000621371, 1), in tenths of a mile.  The product
\* meters * 621371 is split so that no intermediate value leaves 32 bits.
\* Mutant: the product is cut to one decimal instead of rounded.
MetersToMiles_truncate(meters) ==
    LET a == meters * 621
        b == meters * 371
        a1 == a \div 100000
        a0 == a % 100000
    IN  Miles(a1 + ((a0 * 1000 + b) \div 100000000))

MetersToMiles(meters) ==
    LET a == meters * 621
        b == meters * 371
        a1 == a \div 100000
        a0 == a % 100000
    IN  Miles(a1 + ((a0 * 1000 + b + 50000000) \div 100000000))

\* data.get("routes", [])
GetRoutes(data) == IF data.hasRoutes THEN data.routes ELSE << >>

\* Mutant: the distance is read from the last route instead of the first.
handle_response_last_route(r) ==
    IF r.kind = "exc" THEN Raised
    ELSE IF r.status # HTTP_OK THEN Returned(PyNone)
    ELSE IF ~r.body.json THEN Raised
    ELSE LET routes == GetRoutes(r.body)
         IN  IF routes = << >> THEN Returned(PyNone)
             ELSE LET meters == routes[Len(routes)].distanceMeters
                  IN  IF meters = PyNone THEN Returned(PyNone)
                      ELSE Returned(MetersToMiles(meters.n))

\* The part of google_route_distance_miles that follows the POST.
handle_response(r) ==
    IF r.kind = "exc" THEN Raised
    ELSE IF r.status # HTTP_OK THEN Returned(PyNone)
    ELSE IF ~r.body.json THEN Raised
    ELSE LET routes == GetRoutes(r.body)
         IN  IF routes = << >> THEN Returned(PyNone)
             ELSE LET meters == routes[1].distanceMeters
                  IN  IF meters = PyNone THEN Returned(PyNone)
                      ELSE Returned(MetersToMiles(meters.n))

\* ------------------------------------------------------------ inputs
\* Cell values of the eight columns the classifier reads.  Every column
\* offers the values the normalisation must tell apart: None, NaN, the empty
\* and the whitespace-only string, and a value that needs trimming.
MxOriginVals == { NaN, PyNone, Str(<< " " >>), Str(<< " ", "T", ",", "B" >>) }
MxDestVals == { NaN, Str(<< >>), Str(<< " ", " " >>), Str(<< "J", ",", "N", " " >>) }
OriginCityVals == { PyNone, NaN, Str(<< >>), Str(<< " " >>), Str(<< "E", " " >>) }
OriginStateVals == { PyNone, NaN, Str(<< >>), Str(<< " " >>), Str(<< "X" >>) }
OriginZipVals == { NaN, PyInt(79) }
DestCityVals == { PyNone, NaN, Str(<< >>), Str(<< " " >>), Str(<< " ", "S" >>) }
DestStateVals == { PyNone, NaN, Str(<< >>), Str(<< " " >>), Str(<< "C" >>) }
DestZipVals == { NaN, Str(<< "9", "2" >>) }

AllRows ==
    [ mxo : MxOriginVals, mxd : MxDestVals,
      ocity : OriginCityVals, ostate : OriginStateVals, ozip : OriginZipVals,
      dcity : DestCityVals, dstate : DestStateVals, dzip : DestZipVals ]

Row(mxo, mxd, ocity, ostate, ozip, dcity, dstate, dzip) ==
    [ mxo |-> mxo, mxd |-> mxd, ocity |-> ocity, ostate |-> ostate,
      ozip |-> ozip, dcity |-> dcity, dstate |-> dstate, dzip |-> dzip ]

\* Rows of the sheets with two or more records: a rule-1 leg, a rule-3 leg
\* and a rule-2 record whose U.S. origin cannot be built (no leg).
RowRule1 == Row(Str(<< " ", "T", ",", "B" >>), NaN, NaN, NaN, NaN,
                Str(<< " ", "S" >>), Str(<< "C" >>), Str(<< "9", "2" >>))
RowRule3 == Row(Str(<< " ", "T", ",", "B" >>), Str(<< "J", ",", "N", " " >>),
                NaN, NaN, NaN, NaN, NaN, NaN)
RowNoLeg == Row(NaN, Str(<< "J", ",", "N", " " >>), Str(<< " " >>),
                Str(<< "X" >>), PyInt(79), NaN, NaN, NaN)
SheetRows == { RowRule1, RowRule3, RowNoLeg }

\* The uploaded sheets: the empty sheet, every one-record sheet, and the
\* sheets of 2..MaxRecords records over SheetRows.
Sheets ==
    { << >> } \cup { << r >> : r \in AllRows }
    \cup UNION { [1..n -> SheetRows] : n \in 2..MaxRecords }

\* os.getenv("GOOGLE_API_KEY"): unset, empty, or a key.
KeyVals == { PyNone, Str(<< >>), Str(<< "k" >>) }

Meters1 == PyInt(160934)
Meters2 == PyInt(1000)

Bodies ==
    { NotJson, JsonNoRoutes, JsonRoutes(<< >>),
      JsonRoutes(<< Route(PyNone) >>), JsonRoutes(<< Route(Meters1) >>),
      JsonRoutes(<< Route(Meters1), Route(Meters2) >>),
      JsonRoutes(<< Route(Meters2), Route(Meters1) >>),
      JsonRoutes(<< Route(PyNone), Route(Meters1) >>) }

\* Everything the provider can answer a one-record sheet with.
RichResponses ==
    { ExcResponse("timeout"), ExcResponse("connect") }
    \cup { HttpResponse(st, b) : st \in { HTTP_OK, 500 }, b \in Bodies }

\* The answers the larger sheets are driven with.
SheetResponses ==
    { ExcResponse("timeout"),
      HttpResponse(HTTP_OK, NotJson),
      HttpResponse(500, JsonNoRoutes),
      HttpResponse(HTTP_OK, JsonRoutes(<< Route(Meters1) >>)),
      HttpResponse(HTTP_OK, JsonRoutes(<< Route(Meters2), Route(Meters1) >>)) }

\* ------------------------------------------------------------ state
VARIABLES
    df,              \* the records of the sheet, in input order
    GOOGLE_API_KEY,  \* the provider credential read at import
    sem,             \* free slots of the limiter
    pc,              \* per record, where its process_one task is
    addr,            \* per record, what the classifier returned for it
    nclassified,     \* per record, how many times it was classified
    calls,           \* per record, the requests posted to the provider
    resp,            \* per record, what the provider answered
    ret,             \* per record, the (idx, miles) its task returned
    waited,          \* records whose task had to wait for a slot
    outoforder,      \* whether an answer overtook an earlier record's task
    phase,           \* calculate_mileage: "gather", "done" or "failed"
    mexico_miles,    \* the output slot array
    provider,        \* a stubbed provider: its answer for each address pair
    fn_in,           \* a direct call of a helper: the function and arguments
    fn_out           \* what that call returned

vars == << df, GOOGLE_API_KEY, sem, pc, addr, nclassified, calls, resp, ret,
           waited, outoforder, phase, mexico_miles, provider, fn_in, fn_out >>

\* No helper is called directly; no value returned yet.
Idle == [f |-> "none"]
Unset == [t |-> "unset"]
\* The live provider: its answers are not a table.
Live == << >>

N == Len(df)
Idx == 1..N

\* The state when calculate_mileage reaches gather(), for a sheet of `sheets`.
InitOf(sheets) ==
    /\ df \in sheets
    /\ GOOGLE_API_KEY \in KeyVals
    /\ sem = SemLimit
    /\ pc = [i \in Idx |-> "pending"]
    /\ addr = [i \in Idx |-> NoLeg]
    /\ nclassified = [i \in Idx |-> 0]
    /\ calls = [i \in Idx |-> << >>]
    /\ resp = [i \in Idx |-> PyNone]
    /\ ret = [i \in Idx |-> PyNone]
    /\ waited = {}
    /\ outoforder = FALSE
    /\ phase = "gather"
    /\ mexico_miles = << >>
    /\ fn_in = Idle
    /\ fn_out = Unset

Init == InitOf(Sheets) /\ provider = Live

\* ------------------------------------------------------------ limiter
\* asyncio.Semaphore: acquire() returns at once while a slot is free and
\* suspends the task otherwise; "async with" releases on every way out of
\* its block, a return or an exception.
\* Mutant: acquire() never suspends.
sem_can_acquire_always(s) == TRUE
sem_can_acquire(s) == s > 0
sem_acquire(s) == s - 1
\* Mutant: a release after the call instead of "async with", skipped when
\* the call raises.
sem_exit_skipped_on_raise(s, raised) == IF raised THEN s ELSE s + 1
\* raised: whether the block is left by an exception
sem_exit(s, raised) == s + 1

\* ------------------------------------------------------------ process_one
\* Mutant: the tag is the loop variable read after the loop has ended.
Result_last_idx(idx, miles) == [idx |-> N, miles |-> miles]
\* The (idx, miles) tuple a task returns.
Result(idx, miles) == [idx |-> idx, miles |-> miles]

\* Mutant: the short-circuit for records without a leg is missing.
HasLeg_always(p) == TRUE
\* "if not origin_addr or not dest_addr"
HasLeg(p) == Truthy(p.origin) /\ Truthy(p.dest)

\* Mutant: the client does not test the key before it posts.
KeyConfigured_always(key) == TRUE
\* "if not GOOGLE_API_KEY: return None"
KeyConfigured(key) == Truthy(key)

\* Mutant: a lookup that raised is scheduled again.
after_response_retry(o) == IF o.raised THEN "pending" ELSE "returned"
\* Where a task goes once its call has been answered.
\* (A task that raised does not run again: there is no retry.)
after_response(o) == IF o.raised THEN "raised" ELSE "returned"

\* process_one from the acquired slot to its first suspension: classify,
\* return (idx, None) without a leg or without a key, else post the request.
Body(i) ==
    LET p == classify_and_build_addresses(df[i])
    IN  /\ addr' = [addr EXCEPT ![i] = p]
        /\ nclassified' = [nclassified EXCEPT ![i] = @ + 1]
        /\ IF ~HasLeg(p) \/ ~KeyConfigured(GOOGLE_API_KEY)
           THEN /\ pc' = [pc EXCEPT ![i] = "returned"]
                /\ ret' = [ret EXCEPT ![i] = Result(i, PyNone)]
                /\ sem' = sem_exit(sem_acquire(sem), FALSE)
                /\ UNCHANGED calls
           ELSE /\ pc' = [pc EXCEPT ![i] = "inflight"]
                /\ calls' = [calls EXCEPT ![i] = Append(@, p)]
                /\ sem' = sem_acquire(sem)
                /\ UNCHANGED ret
        /\ UNCHANGED << provider, fn_in, fn_out, df, GOOGLE_API_KEY, resp, outoforder, phase, mexico_miles >>

\* The event loop runs a created task for the first time: it takes a slot and
\* runs on, or finds none and suspends in acquire().  gather() schedules the
\* tasks in the order of the list, so they first run in record order.
Start(i) ==
    /\ pc[i] = "pending"
    /\ \A j \in 1..(i - 1) : pc[j] # "pending"
    /\ IF sem_can_acquire(sem)
       THEN Body(i) /\ UNCHANGED waited
       ELSE /\ pc' = [pc EXCEPT ![i] = "waiting"]
            /\ waited' = waited \cup {i}
            /\ UNCHANGED << provider, fn_in, fn_out, df, GOOGLE_API_KEY, sem, addr, nclassified, calls,
                            resp, ret, outoforder, phase, mexico_miles >>

\* A suspended task is woken once a slot is free.
Wake(i) ==
    /\ pc[i] = "waiting"
    /\ sem_can_acquire(sem)
    /\ Body(i)
    /\ UNCHANGED waited

Unfinished(j) == pc[j] \in { "pending", "waiting", "inflight" }

\* The provider's answer r reaches task i: the rest of
\* google_route_distance_miles runs, the slot is released, the task ends.
Complete(i, r) ==
    /\ pc[i] = "inflight"
    /\ LET o == handle_response(r)
       IN  /\ pc' = [pc EXCEPT ![i] = after_response(o)]
           /\ ret' = [ret EXCEPT ![i] = IF o.raised THEN @ ELSE Result(i, o.value)]
           /\ sem' = sem_exit(sem, o.raised)
    /\ resp' = [resp EXCEPT ![i] = r]
    /\ outoforder' = (outoforder \/ \E j \in 1..(i - 1) : Unfinished(j))
    /\ UNCHANGED << provider, fn_in, fn_out, df, GOOGLE_API_KEY, addr, nclassified, calls, waited,
                    phase, mexico_miles >>

ProviderResponses == IF N = 1 THEN RichResponses ELSE SheetResponses

\* ------------------------------------------------------------ calculate_mileage
\* "for idx, miles in results: mexico_miles[idx] = miles", from position k on.
RECURSIVE WriteSlots(_, _, _)
WriteSlots(slots, results, k) ==
    IF k > Len(results) THEN slots
    ELSE WriteSlots([slots EXCEPT ![results[k].idx] = results[k].miles],
                    results, k + 1)

\* gather() hands back the tasks' return values in task order.
GatherResults == [k \in Idx |-> ret[k]]

IsResult(r) == r # PyNone

\* Mutant: the slot array is filled as soon as the first task has returned
\* (a wait for the first completion instead of gather).
Assemble_first_completed ==
    /\ phase = "gather"
    /\ \E i \in Idx : pc[i] = "returned"
    /\ mexico_miles' = WriteSlots([k \in Idx |-> PyNone],
                                   SelectSeq(GatherResults, IsResult), 1)
    /\ phase' = "done"
    /\ UNCHANGED << provider, fn_in, fn_out, df, GOOGLE_API_KEY, sem, pc, addr, nclassified, calls,
                    resp, ret, waited, outoforder >>

\* Every task has returned: gather() returns and the slot array is filled.
Assemble ==
    /\ phase = "gather"
    /\ \A i \in Idx : pc[i] = "returned"
    /\ mexico_miles' = WriteSlots([k \in Idx |-> PyNone], GatherResults, 1)
    /\ phase' = "done"
    /\ UNCHANGED << provider, fn_in, fn_out, df, GOOGLE_API_KEY, sem, pc, addr, nclassified, calls,
                    resp, ret, waited, outoforder >>

\* A task has raised: gather() re-raises in calculate_mileage, which ends
\* without an output.  The other tasks are not cancelled and run on.
Abort ==
    /\ phase = "gather"
    /\ \E i \in Idx : pc[i] = "raised"
    /\ phase' = "failed"
    /\ UNCHANGED << provider, fn_in, fn_out, df, GOOGLE_API_KEY, sem, pc, addr, nclassified, calls,
                    resp, ret, waited, outoforder, mexico_miles >>

Next ==
    \/ \E i \in Idx : Start(i)
    \/ \E i \in Idx : Wake(i)
    \/ \E i \in Idx : \E r \in ProviderResponses : Complete(i, r)
    \/ Assemble
    \/ Abort

Spec == Init /\ [][Next]_vars

\* The sheets of 0..MaxRecords records over SheetRows.
SmallSheets == UNION { [1..n -> SheetRows] : n \in 0..MaxRecords }

\* The event loop runs every runnable task, every posted request is answered
\* or times out, and gather() resumes its caller.
FairSpec ==
    /\ InitOf(SmallSheets)
    /\ provider = Live
    /\ [][Next]_vars
    /\ \A i \in 1..MaxRecords : WF_vars(i \in Idx /\ Start(i))
    /\ \A i \in 1..MaxRecords : WF_vars(i \in Idx /\ Wake(i))
    /\ \A i \in 1..MaxRecords :
           WF_vars(i \in Idx /\ \E r \in ProviderResponses : Complete(i, r))
    /\ WF_vars(Assemble)
    /\ WF_vars(Abort)

\* ------------------------------------------------------------ stubbed provider
\* The address pairs the sheets over SheetRows ask the provider about.
LegPairs ==
    { classify_and_build_addresses(r) : r \in SheetRows } \ { NoLeg }

\* A deterministic stub: one answer per address pair, fixed for the run.
Stubs == [LegPairs -> SheetResponses]

\* The stub answers task i's request.
StubComplete(i) ==
    /\ pc[i] = "inflight"
    /\ Complete(i, provider[calls[i][1]])

StubNext ==
    \/ \E i \in Idx : Start(i)
    \/ \E i \in Idx : Wake(i)
    \/ \E i \in Idx : StubComplete(i)
    \/ Assemble
    \/ Abort

\* calculate_mileage over a deterministic stub, under every scheduling.
StubSpec == InitOf(SmallSheets) /\ provider \in Stubs /\ [][StubNext]_vars

\* ------------------------------------------------------------ direct calls
\* The helpers called on their own, as a unit test calls them.
MaxMeters == 3000

\* Distances the provider reports: every one up to MaxMeters, and Meters1.
MeterVals == 0..MaxMeters \cup { Meters1.n }

DistanceResponses ==
    { HttpResponse(HTTP_OK, JsonRoutes(<< Route(PyInt(m)) >>)) : m \in MeterVals }

JUAREZ_NL == Str(<< "J", "U", "A", "R", "E", "Z", ",", "N", "L" >>)
ZIP_32000 == Str(<< "3", "2", "0", "0", "0" >>)

\* Cell values of a "Mexico ... City and State" column.
TokenVals ==
    { PyNone, NaN, Str(<< >>), Str(<< " " >>), JUAREZ_NL,
      Str(<< " ", "T", ",", "B", " " >>), Str(<< "A", ",", "B", ",", "C" >>),
      Str(<< "X" >>), Str(<< "J", ",", " ", "N" >>) }

ZipVals == { PyNone, Str(<< >>), ZIP_32000 }

FnInputs ==
    [ f : { "build_address" }, token : TokenVals, zip : ZipVals ]
    \cup [ f : { "client" }, r : DistanceResponses ]

FnInit ==
    /\ df = << >>
    /\ GOOGLE_API_KEY = Str(<< "k" >>)
    /\ sem = SemLimit
    /\ pc = << >>
    /\ addr = << >>
    /\ nclassified = << >>
    /\ calls = << >>
    /\ resp = << >>
    /\ ret = << >>
    /\ waited = {}
    /\ outoforder = FALSE
    /\ phase = "gather"
    /\ mexico_miles = << >>
    /\ provider = Live
    /\ fn_in \in FnInputs
    /\ fn_out = Unset

\* build_address on a cell value as the classifier passes it: through norm.
CallBuildAddress ==
    /\ fn_in.f = "build_address"
    /\ fn_out = Unset
    /\ fn_out' = build_address(norm(fn_in.token), fn_in.zip, MEXICO)
    /\ UNCHANGED << df, GOOGLE_API_KEY, sem, pc, addr, nclassified, calls, resp,
                    ret, waited, outoforder, phase, mexico_miles, provider, fn_in >>

\* google_route_distance_miles from the provider's answer on.
CallClient ==
    /\ fn_in.f = "client"
    /\ fn_out = Unset
    /\ fn_out' = handle_response(fn_in.r)
    /\ UNCHANGED << df, GOOGLE_API_KEY, sem, pc, addr, nclassified, calls, resp,
                    ret, waited, outoforder, phase, mexico_miles, provider, fn_in >>

FnNext == CallBuildAddress \/ CallClient

FnSpec == FnInit /\ [][FnNext]_vars

\* ------------------------------------------------------------ properties
Finished(i) == pc[i] \in { "returned", "raised" }
InFlight == { i \in Idx : pc[i] = "inflight" }
IsMiles(v) == v.t = "miles"

\* What the run computes for record i: nothing without a leg or without a
\* request, else what the client makes of the provider's answer to record i.
ComputedFor(i) ==
    IF classify_and_build_addresses(df[i]) = NoLeg \/ calls[i] = << >>
    THEN PyNone
    ELSE handle_response(resp[i]).value

\* C1: whenever the run has produced its output, the output has one entry per
\* input record and entry i is the result computed for record i from the
\* provider's answer to the request made with record i's own address pair,
\* whatever the order in which the lookups completed.
C1_OutputInInputOrder ==
    phase = "done" =>
        /\ Len(mexico_miles) = Len(df)
        /\ \A i \in Idx :
            /\ mexico_miles[i] = ComputedFor(i)
            /\ calls[i] # << >> =>
                   calls[i] = << classify_and_build_addresses(df[i]) >>

\* A finished run of three records in which an answer overtook an earlier
\* record and two records hold different distances.
C1_Witness ==
    /\ phase = "done"
    /\ Len(df) = 3
    /\ outoforder
    /\ \E i, j \in Idx :
        /\ i < j
        /\ IsMiles(mexico_miles[i]) /\ IsMiles(mexico_miles[j])
        /\ mexico_miles[i] # mexico_miles[j]
    /\ \E i \in Idx : mexico_miles[i] = PyNone

\* C2: at no time are more lookups in flight (request posted, answer not yet
\* received) than the limiter has slots.
C2_InFlightBounded == Cardinality(InFlight) <= SemLimit

\* More records with a leg than slots: the limiter is full and a task waits.
C2_Witness ==
    /\ Len(df) > SemLimit
    /\ \A i \in Idx : classify_and_build_addresses(df[i]) # NoLeg
    /\ Cardinality(InFlight) = SemLimit
    /\ \E i \in Idx : pc[i] = "waiting"

\* C3: a lookup that fails at the transport level (timeout, provider
\* unreachable, unparseable body) leaves its record with the result absent
\* and does not abort the run.
C3_TransportFailureDegrades ==
    /\ phase # "failed"
    /\ \A i \in Idx :
        (Finished(i) /\ resp[i] # PyNone /\ handle_response(resp[i]).raised)
            => (pc[i] = "returned" /\ ret[i] = Result(i, PyNone))

\* C4: every slot taken is given back on every way out of a lookup: the free
\* slots and the lookups in flight always add up to the limiter's size, so
\* all slots are free once every task has finished and a free slot exists
\* whenever a task waits while fewer than SemLimit lookups are in flight.
C4_SlotsReleased ==
    /\ sem >= 0
    /\ sem + Cardinality(InFlight) = SemLimit
    /\ (\A i \in Idx : Finished(i)) => sem = SemLimit

\* All tasks are over after a success, a provider error and an exception,
\* one of them having waited for a slot, and every slot is free.
C4_Witness ==
    /\ \A i \in Idx : Finished(i)
    /\ waited # {}
    /\ sem = SemLimit
    /\ \E i \in Idx : pc[i] = "raised"
    /\ \E i \in Idx : pc[i] = "returned" /\ IsMiles(ret[i].miles)
    /\ \E i \in Idx : /\ pc[i] = "returned" /\ ret[i].miles = PyNone
                      /\ resp[i] # PyNone /\ resp[i].kind = "http"
                      /\ resp[i].status # HTTP_OK

\* The classifier produced a present AddressPair for record i.
PairPresent(i) == Truthy(addr[i].origin) /\ Truthy(addr[i].dest)
Called(i) == calls[i] # << >>
Entered(i) == pc[i] \in { "inflight", "returned", "raised" }

\* C5 as stated: once a record's task has run, a request was posted for it
\* exactly if the classifier produced a present AddressPair.
C5_CallIffPair ==
    \A i \in Idx : Entered(i) => (Called(i) <=> PairPresent(i))

\* C5 amended: a request is posted for a record exactly if the classifier
\* produced a present AddressPair and the provider key is configured; a
\* record without a leg returns absent and no request is ever posted for it.
C5_CallIffPairAndKey ==
    \A i \in Idx :
        /\ Called(i) => Entered(i)
        /\ Entered(i) =>
               (Called(i) <=> (PairPresent(i) /\ GOOGLE_API_KEY \notin { PyNone, Str(<< >>) }))
        /\ (Entered(i) /\ ~PairPresent(i)) =>
               (pc[i] = "returned" /\ ret[i].miles = PyNone /\ ~Called(i))

\* A finished run with a configured key in which one record had its request
\* posted and another, without a leg, returned absent with none.
C5_Witness ==
    /\ phase = "done"
    /\ GOOGLE_API_KEY = Str(<< "k" >>)
    /\ \E i, j \in Idx :
        /\ Called(i) /\ PairPresent(i) /\ IsMiles(mexico_miles[i])
        /\ ~Called(j) /\ ~PairPresent(j) /\ mexico_miles[j] = PyNone

\* C6: under fair scheduling, with every request answered or timed out,
\* every record eventually holds a result and the run ends with its output.
C6_EveryRecordResolved ==
    <>(phase = "done" /\ \A i \in Idx : pc[i] = "returned")

\* Results of the gathered tasks that carry the tag i.
ResultsFor(i) == { k \in Idx : ret[k] # PyNone /\ ret[k].idx = i }

\* C7: a record is classified once, at most one request is posted for it,
\* and once all tasks are over it holds exactly one result.
C7_ProcessedExactlyOnce ==
    \A i \in Idx :
        /\ nclassified[i] <= 1
        /\ Len(calls[i]) <= 1
        /\ (\A j \in Idx : Finished(j)) =>
               (nclassified[i] = 1 /\ Cardinality(ResultsFor(i)) = 1)

\* A cell is present when it is neither None nor NaN and holds a character
\* other than a blank.
Present(v) ==
    /\ v.t \in { "str", "int" }
    /\ \E k \in 1..Len(PyStr(v)) : PyStr(v)[k] # " "

hasMexicoOrigin(row) == Present(row.mxo)
hasMexicoDest(row) == Present(row.mxd)

MexicoAddressOf(token) == build_address(norm(token), PyNone, MEXICO)
USAddressOf(city, state, zip) == build_us_address(norm(city), norm(state), norm(zip))

\* The pair of the rule table, read row by row.
TablePair(row) ==
    IF hasMexicoOrigin(row) /\ ~hasMexicoDest(row)
    THEN Pair(MexicoAddressOf(row.mxo), USAddressOf(row.dcity, row.dstate, row.dzip))
    ELSE IF ~hasMexicoOrigin(row) /\ hasMexicoDest(row)
    THEN Pair(USAddressOf(row.ocity, row.ostate, row.ozip), MexicoAddressOf(row.mxd))
    ELSE IF hasMexicoOrigin(row) /\ hasMexicoDest(row)
    THEN Pair(MexicoAddressOf(row.mxo), MexicoAddressOf(row.mxd))
    ELSE NoLeg

\* The pair of the rule table, absent when one of its addresses is.
TablePairOrAbsent(row) ==
    IF TablePair(row).origin = PyNone \/ TablePair(row).dest = PyNone
    THEN NoLeg
    ELSE TablePair(row)

\* C8 as stated: for every classified record the classifier returned the
\* pair of the rule that applies: (Mexico origin, U.S. destination) for rule
\* 1, (U.S. origin, Mexico destination) for rule 2, (Mexico origin, Mexico
\* destination) for rule 3, absent for rule 4.
C8_RulePair ==
    \A i \in Idx : nclassified[i] >= 1 => addr[i] = TablePair(df[i])

\* C8 amended: the classifier returned the pair of the rule that applies,
\* and absent instead when rule 1 or 2 applies and the U.S. address cannot be
\* built; rule 3 always yields both Mexico addresses.
C8_RulePairOrAbsent ==
    \A i \in Idx :
        nclassified[i] >= 1 =>
            /\ addr[i] = TablePairOrAbsent(df[i])
            /\ (hasMexicoOrigin(df[i]) /\ hasMexicoDest(df[i])) =>
                   (IsStr(addr[i].origin) /\ IsStr(addr[i].dest))

\* A record classified by rule 2 into (U.S. origin, Mexico destination),
\* after trimming and with the zip taken from an int cell.
C8_Witness ==
    \E i \in Idx :
        /\ nclassified[i] = 1
        /\ ~hasMexicoOrigin(df[i]) /\ hasMexicoDest(df[i])
        /\ df[i].mxo = Str(<< " " >>)
        /\ addr[i] = Pair(Str(<< "E", ",", " ", "X", ",", " ", "7", "9", ",", " ",
                                 "U", "S", "A" >>),
                          Str(<< "J", ",", " ", "N", ",", " ",
                                 "M", "e", "x", "i", "c", "o" >>))

\* None, NaN, empty or whitespace-only.
Blank(v) == ~Present(v)

USAddressMissing(i) ==
    \/ /\ hasMexicoOrigin(df[i]) /\ ~hasMexicoDest(df[i])
       /\ (Blank(df[i].dcity) \/ Blank(df[i].dstate))
    \/ /\ ~hasMexicoOrigin(df[i]) /\ hasMexicoDest(df[i])
       /\ (Blank(df[i].ocity) \/ Blank(df[i].ostate))

\* C9: when rule 1 applies with a blank destination city or state, or rule 2
\* with a blank origin city or state, the classifier returns absent and the
\* task returns absent without a request, as for rule 4.
C9_MissingUSAddressIsNoLeg ==
    \A i \in Idx :
        (nclassified[i] >= 1 /\ USAddressMissing(i)) =>
            /\ addr[i] = NoLeg
            /\ calls[i] = << >>
            /\ pc[i] = "returned"
            /\ ret[i].miles = PyNone

\* A rule-1 record with a city and a whitespace-only destination state, with
\* the key configured, has returned absent with no request posted.
C9_Witness ==
    \E i \in Idx :
        /\ nclassified[i] = 1
        /\ GOOGLE_API_KEY = Str(<< "k" >>)
        /\ hasMexicoOrigin(df[i]) /\ ~hasMexicoDest(df[i])
        /\ df[i].dcity = Str(<< " ", "S" >>) /\ df[i].dstate = Str(<< " " >>)
        /\ addr[i] = NoLeg /\ calls[i] = << >> /\ ret[i].miles = PyNone

Answered(i) == resp[i] # PyNone

\* The answer has no usable distance: a non-success status, or a JSON body
\* with no route or with a first route that has no distance.
NoDistance(r) ==
    /\ r.kind = "http"
    /\ \/ r.status # HTTP_OK
       \/ /\ r.body.json
          /\ \/ ~r.body.hasRoutes
             \/ r.body.routes = << >>
             \/ r.body.routes[1].distanceMeters = PyNone

\* C10: on an answer without a usable distance the client returns absent
\* and does not raise; a miles figure it returns is the conversion of the
\* first route's distance.
C10_NoDistanceIsAbsent ==
    \A i \in Idx :
        Answered(i) =>
            /\ NoDistance(resp[i]) => (pc[i] = "returned" /\ ret[i].miles = PyNone)
            /\ (pc[i] = "returned" /\ IsMiles(ret[i].miles)) =>
                   /\ resp[i].kind = "http" /\ resp[i].status = HTTP_OK
                   /\ resp[i].body.json /\ resp[i].body.hasRoutes
                   /\ resp[i].body.routes # << >>
                   /\ resp[i].body.routes[1].distanceMeters # PyNone
                   /\ ret[i].miles =
                          MetersToMiles(resp[i].body.routes[1].distanceMeters.n)

\* The client returned absent for a first route without a distance although
\* the second route has one.
C10_Witness ==
    \E i \in Idx :
        /\ resp[i] = HttpResponse(HTTP_OK, JsonRoutes(<< Route(PyNone), Route(Meters1) >>))
        /\ pc[i] = "returned"
        /\ ret[i].miles = PyNone

\* os.getenv found no key, or an empty one.
NoCredentials == GOOGLE_API_KEY \in { PyNone, Str(<< >>) }

\* C11: without provider credentials no request is posted and no task
\* raises; every task returns absent, every slot stays free, the run is never
\* aborted, gather() can return once all tasks are over, and the output is
\* one absent entry per record.
C11_NoKeyAllAbsent ==
    NoCredentials =>
        /\ phase # "failed"
        /\ sem = SemLimit
        /\ (\A i \in Idx : Finished(i)) => (phase = "done" \/ ENABLED Assemble)
        /\ \A i \in Idx :
            /\ pc[i] \notin { "inflight", "raised" }
            /\ calls[i] = << >>
            /\ pc[i] = "returned" => ret[i] = [idx |-> i, miles |-> PyNone]
        /\ phase = "done" =>
            /\ Len(mexico_miles) = Len(df)
            /\ \A i \in Idx : mexico_miles[i] = PyNone

\* A finished run of three records without a key, two of them with a leg,
\* one of which had to wait for a slot.
C11_Witness ==
    /\ GOOGLE_API_KEY = PyNone
    /\ phase = "done"
    /\ Len(df) = 3
    /\ \E i, j \in Idx : i # j /\ PairPresent(i) /\ PairPresent(j)
    /\ mexico_miles = << PyNone, PyNone, PyNone >>

\* Pending (created, or waiting for a slot), AwaitingDistance (request
\* posted), Resolved (returned); a task that raised is over as well.
StateRank(st) ==
    CASE st = "pending" -> 0
      [] st = "waiting" -> 1
      [] st = "inflight" -> 2
      [] st = "returned" -> 3
      [] st = "raised" -> 3

\* C13: in every step no record moves back to an earlier state, a record
\* enters AwaitingDistance only with a leg, a record without a leg goes
\* from Pending to Resolved(absent) in one step, and a Resolved record keeps
\* its state and its result.
C13_Monotone ==
    [][\A i \in Idx :
         /\ StateRank(pc'[i]) >= StateRank(pc[i])
         /\ nclassified'[i] >= nclassified[i]
         /\ (pc'[i] = "inflight" /\ pc[i] # "inflight") =>
                (pc[i] \in { "pending", "waiting" } /\ addr'[i] # NoLeg)
         /\ (pc'[i] # pc[i] /\ addr'[i] = NoLeg /\ pc'[i] # "waiting") =>
                (pc'[i] = "returned" /\ ret'[i].miles = PyNone)
         /\ pc[i] = "returned" => (pc'[i] = "returned" /\ ret'[i] = ret[i])
         /\ pc[i] = "raised" => pc'[i] = "raised"
         /\ phase = "done" => (phase' = "done" /\ mexico_miles' = mexico_miles)
      ]_vars

\* A record with a leg has returned a distance and a record without a leg,
\* after waiting for a slot, has returned absent with no request.
C13_Witness ==
    /\ \E i \in Idx : pc[i] = "returned" /\ IsMiles(ret[i].miles) /\ Called(i)
    /\ \E j \in Idx : /\ j \in waited /\ pc[j] = "returned" /\ addr[j] = NoLeg
                      /\ nclassified[j] = 1 /\ ~Called(j)

\* C16: only a record with a leg ever waits for a slot; a record without a
\* leg is resolved without waiting, however many lookups are in flight.
C16_NoLegNeverWaits ==
    \A i \in Idx :
        (pc[i] = "waiting" \/ i \in waited) =>
            classify_and_build_addresses(df[i]) # NoLeg

\* C17: the slot array does not exist before gather() has returned; when it
\* is written every task has returned (no lookup is waiting or in flight),
\* it has one slot per record, every result sits in the slot its tag names,
\* and the slot of a record for which no request was posted holds absent.
C17_SlotsWrittenAfterAllWork ==
    /\ phase # "done" => mexico_miles = << >>
    /\ phase = "done" =>
        /\ \A i \in Idx : pc[i] = "returned"
        /\ InFlight = {}
        /\ DOMAIN mexico_miles = Idx
        /\ \A k \in Idx : /\ ret[k].idx \in Idx
                          /\ mexico_miles[ret[k].idx] = ret[k].miles
        /\ \A i \in Idx : ~Called(i) => mexico_miles[i] = PyNone

\* The array of a three-record sheet is written after two lookups that
\* completed out of order; the last record had no request and holds absent.
C17_Witness ==
    /\ phase = "done"
    /\ Len(df) = 3
    /\ outoforder
    /\ IsMiles(mexico_miles[1]) /\ IsMiles(mexico_miles[2])
    /\ mexico_miles[1] # mexico_miles[2]
    /\ ~Called(3) /\ mexico_miles[3] = PyNone

\* A non-empty address string.
NonEmptyStr(v) == IsStr(v) /\ v.s # << >>

\* Both sides absent, or both sides non-empty strings.
TwoSided(p) ==
    \/ p = NoLeg
    \/ NonEmptyStr(p.origin) /\ NonEmptyStr(p.dest)

\* C18: for every record the classifier returns a pair with both sides
\* absent or both sides present, and every request the pipeline hands to the
\* client carries two non-empty address strings.
C18_PairsTwoSided ==
    \A i \in Idx :
        /\ TwoSided(classify_and_build_addresses(df[i]))
        /\ TwoSided(addr[i])
        /\ nclassified[i] >= 1 => addr[i] = classify_and_build_addresses(df[i])
        /\ \A k \in DOMAIN calls[i] :
            NonEmptyStr(calls[i][k].origin) /\ NonEmptyStr(calls[i][k].dest)
        /\ (pc[i] \in { "inflight", "raised" } \/ Answered(i)) =>
            NonEmptyStr(addr[i].origin) /\ NonEmptyStr(addr[i].dest)

\* A rule-1 record whose U.S. address cannot be built was classified as no
\* leg (both sides absent) and returned without a request.
C18_Witness ==
    /\ Len(df) = 1
    /\ GOOGLE_API_KEY = Str(<< "k" >>)
    /\ hasMexicoOrigin(df[1]) /\ ~hasMexicoDest(df[1])
    /\ Present(df[1].dcity) /\ Blank(df[1].dstate)
    /\ pc[1] = "returned" /\ addr[1] = NoLeg /\ ~Called(1)
    /\ phase = "done"

\* What one record yields on its own: absent without a leg or a key, else
\* what the client makes of the stub's answer for the record's pair.
LookupOf(row) ==
    LET p == classify_and_build_addresses(row)
    IN  IF ~HasLeg(p) \/ ~KeyConfigured(GOOGLE_API_KEY) THEN Returned(PyNone)
        ELSE handle_response(provider[p])

SomeLookupRaises == \E i \in Idx : LookupOf(df[i]).raised

\* C12: with a deterministic provider the outcome of a run is a function of
\* the records, the key and the provider alone, under every scheduling and
\* completion order: a run that ends with an output ends with the sequence
\* of the records' own lookups, and whether a run ends without an output is
\* decided by the same inputs.  Two runs on the same input hence agree.
C12_OutputIsFunctionOfInput ==
    /\ phase = "done" =>
        /\ ~SomeLookupRaises
        /\ mexico_miles = [i \in Idx |-> LookupOf(df[i]).value]
    /\ phase = "failed" => SomeLookupRaises

\* A run over three records, the first and the last with the same pair: the
\* last one waited for a slot, the second was answered before the first, and
\* the two pairs have different distances.
C12_Witness ==
    /\ phase = "done"
    /\ Len(df) = 3
    /\ df[1] = df[3] /\ df[1] # df[2]
    /\ outoforder /\ waited = {3}
    /\ IsMiles(mexico_miles[1]) /\ IsMiles(mexico_miles[2])
    /\ mexico_miles[1] # mexico_miles[2]
    /\ mexico_miles[3] = mexico_miles[1]

\* C14: for a distance of m meters in the provider's answer the client
\* returns the tenth of a mile nearest to m * 0.000621371, that is the t with
\* t/10 - 0.05 <= m * 0.000621371 < t/10 + 0.05 (scaled by 10^9; the product
\* fits 32 bits up to 3456 meters); 160934 meters give 100.0 miles.
C14_MilesRounded ==
    (fn_in.f = "client" /\ fn_out # Unset) =>
        LET m == fn_in.r.body.routes[1].distanceMeters.n
        IN  /\ ~fn_out.raised
            /\ IsMiles(fn_out.value)
            /\ m <= MaxMeters =>
                /\ fn_out.value.tenths * 100000000 - 50000000 <= m * 621371
                /\ m * 621371 < fn_out.value.tenths * 100000000 + 50000000
            /\ m = 160934 => fn_out.value.tenths = 1000

\* The client returned 100.0 miles for 160934 meters.
C14_Witness ==
    /\ fn_in.f = "client"
    /\ fn_in.r.body.routes[1].distanceMeters = PyInt(160934)
    /\ fn_out = Returned(Miles(1000))

CommasBefore(s, k) == Cardinality({ j \in 1..(k - 1) : s[j] = "," })

\* s with a space after each comma, position by position.
Spaced(s) ==
    [ q \in 1..(Len(s) + CommasBefore(s, Len(s) + 1)) |->
        IF \E k \in 1..Len(s) : q = k + CommasBefore(s, k)
        THEN s[CHOOSE k \in 1..Len(s) : q = k + CommasBefore(s, k)]
        ELSE " " ]

CommaSpace == << ",", " " >>

====
